---- MODULE Spec2Model ----
(***************************************************************************)
(* Model of the face-recognition API: the biometric store (auth_users,     *)
(* users, faces), the two recognize_user implementations (linear scan in   *)
(* benchmarks/patched_recognition.py, pgvector nearest-neighbour query in  *)
(* app/services/recognition.py), the similarity scorer, the register and  *)
(* delete services, and the routes with their dependencies in front of     *)
(* the services.                                                           *)
(*                                                                         *)
(* Numbers: a float is an integer count of hundredths (1.0 is One = 100);  *)
(* an embedding component is an integer count of tenths, so the dot        *)
(* product of two embeddings is already in hundredths.  The dimension 512  *)
(* is scaled down to EmbeddingDim.                                         *)
(***************************************************************************)
EXTENDS Integers, Sequences, FiniteSets, TLC

VARIABLES auth_users, users, faces, next_id, pending, resp, call,
          matcher_instance, deleted

vars == <<auth_users, users, faces, next_id, pending, resp, call,
          matcher_instance, deleted>>

-----------------------------------------------------------------------------
(* Program constants and bounds *)

One == 100

EmbeddingDim == 2

DefaultThreshold == 70

MaxIds == 2

\* settings.MAX_FILE_SIZE (10485760 bytes) and the 64 KiB chunk of
\* valid_content_length, scaled down: sizes are counted in units of 32 KiB
MAX_FILE_SIZE == 3

ChunkSize == 2

\* the largest upload, in the same units
MaxBytes == 5

\* the interpreter's recursion limit (1000 frames), scaled down
RecursionLimit == 3

None == "None"

Ids == <<"u1", "u2", "u3", "u4", "u5">>

\* thresholds a matcher is constructed with: -1.0, the deployed 0.7, 0.8, 1.5
Thresholds == {0 - One, DefaultThreshold, 80, 150}

\* embeddings the embedder can produce: unit vectors, one vector that is not
\* unit length (embed returns face.embedding as the detector gives it), and
\* one of the wrong dimension
UnitVectors == {<<6, 8>>, <<10, 0>>, <<0, 10>>, <<-6, -8>>}

Embeddings == UnitVectors \cup {<<12, 16>>, <<10>>}

DetectionScores == {95}

-----------------------------------------------------------------------------
(* Values raised or returned *)

Raised(name, msg) == [raised |-> name, msg |-> msg]

Val(v) == [raised |-> "", value |-> v]

HTTPException(status_code, detail) ==
    [kind |-> "HTTPException", status_code |-> status_code, detail |-> detail]

NoResponse == [kind |-> "none"]

NoCall == [op |-> "none"]

\* a request whose INSERT waits for another session to end
Waiting == [kind |-> "waiting"]

\* a session with nothing flushed
NoPending == [users |-> {}, faces |-> {}]

-----------------------------------------------------------------------------
(* Uploaded files.  A file is what the handlers observe of it: the length  *)
(* of the header validate_image reads, whether the header starts with a    *)
(* configured signature, whether PIL decodes it, and the faces the         *)
(* detector finds in it (embedding and detection score of each).           *)

DetectedFace(e, d) == [embedding |-> e, det_score |-> d]

GoodFile(detected) ==
    [header_len |-> 16, signature |-> "known", decodable |-> TRUE,
     detected |-> detected]

Files ==
    {[header_len |-> 2, signature |-> "known", decodable |-> TRUE, detected |-> <<>>],
     [header_len |-> 16, signature |-> "unknown", decodable |-> TRUE, detected |-> <<>>],
     [header_len |-> 16, signature |-> "known", decodable |-> FALSE, detected |-> <<>>],
     GoodFile(<<>>),
     GoodFile(<<DetectedFace(<<6, 8>>, 95), DetectedFace(<<10, 0>>, 95)>>)}
    \cup {GoodFile(<<DetectedFace(e, d)>>) : e \in Embeddings, d \in DetectionScores}

\* a faulty validation: every upload is accepted
validate_image_accepts_all(img) == Val(TRUE)

validate_image(img) ==
    IF img.header_len < 4
    THEN Raised("ValueError", "Image file is too small")
    ELSE IF img.signature = "known"
         THEN Val(TRUE)
         ELSE Raised("ValueError", "Unsupported image format")

decode_image(file) ==
    IF file.decodable
    THEN Val(file)
    ELSE Raised("ImageProcessingError", "Failed to decode image")

\* a faulty embedder: with several faces it embeds the first
embed_first_face(img) ==
    IF Len(img.detected) = 0
    THEN Raised("NoFaceDetectedError", "No face detected in the provided image")
    ELSE Val([embedding |-> img.detected[1].embedding,
              detection_score |-> img.detected[1].det_score])

embed(img) ==
    IF Len(img.detected) = 0
    THEN Raised("NoFaceDetectedError", "No face detected in the provided image")
    ELSE IF Len(img.detected) > 1
         THEN Raised("MultipleFacesDetectedError", "Expected 1 face")
         ELSE Val([embedding |-> img.detected[1].embedding,
                   detection_score |-> img.detected[1].det_score])

\* decode_image, load_image, embedder.embed in sequence: the first exception
\* raised, or the FaceEmbedding
extract_embedding(file) ==
    LET image_pil == decode_image(file) IN
    IF image_pil.raised # "" THEN image_pil ELSE embed(image_pil.value)

-----------------------------------------------------------------------------
(* InsightFaceMatcher *)

Min(a, b) == IF a < b THEN a ELSE b

RECURSIVE DotUpTo(_, _, _)
DotUpTo(e1, e2, n) ==
    IF n = 0 THEN 0 ELSE DotUpTo(e1, e2, n - 1) + e1[n] * e2[n]

\* a faulty product: the first vector with itself
Dot_left(e1, e2) == DotUpTo(e1, e1, Len(e1))

\* np.dot of two 1-d arrays of the same length
Dot(e1, e2) == DotUpTo(e1, e2, Len(e1))

similarity_unchecked(e1, e2) == Val(DotUpTo(e1, e2, Min(Len(e1), Len(e2))))

similarity(e1, e2) ==
    IF Len(e1) # Len(e2)
    THEN Raised("ValueError", "Embeddings must have same shape")
    ELSE Val(Dot(e1, e2))

match(e1, e2, threshold) ==
    LET s == similarity(e1, e2) IN
    IF s.raised # "" THEN s ELSE Val(s.value >= threshold)

-----------------------------------------------------------------------------
(* RecognizeResponse: similarity is a validated field, -1.0 <= s <= 1.0 *)

RecognizeResponse(is_match, user_id, sim) ==
    IF sim < 0 - One \/ sim > One
    THEN Raised("ValidationError", "similarity")
    ELSE Val([kind |-> "RecognizeResponse", match |-> is_match,
              user_id |-> user_id, similarity |-> sim])

clamp_none(s) == s

\* min(1.0, max(-1.0, similarity))
clamp(s) == IF s > One THEN One ELSE IF s < 0 - One THEN 0 - One ELSE s

-----------------------------------------------------------------------------
(* The database as one request sees it.  A session answers the request's   *)
(* query from the committed rows: `fail` is the query raising an           *)
(* SQLAlchemyError, `all` the rows of faces JOIN users in the order the    *)
(* database returns them, `first` the row of ORDER BY cosine_distance      *)
(* LIMIT 1 (no row on an empty table).                                     *)

Session(fail, all, first) == [fail |-> fail, all |-> all, first |-> first]

\* a faulty read: the rows another session has flushed are visible
JoinedFacesUncommitted == faces \cup pending.faces

\* faces JOIN users, as the committed rows show them to a query
JoinedFaces == {f \in faces : \E u \in users : u.user_id = f.user_id}

Orders(S) ==
    {o \in [1..Cardinality(S) -> S] : \A i, j \in 1..Cardinality(S) : i # j => o[i] # o[j]}

Norm(v) == CHOOSE n \in 0..Dot(v, v) : n * n = Dot(v, v)

\* pgvector <=> : 1 - cos(a, b)
cosine_distance(a, b) == One - ((One * Dot(a, b)) \div (Norm(a) * Norm(b)))

\* the rows ORDER BY distance LIMIT 1 can return: a nearest row when the scan
\* is exact, any row when the approximate index answers
NearestRows(rows, q, exact) ==
    IF rows = {} \/ Len(q) # EmbeddingDim
    THEN {{}}
    ELSE IF exact
         THEN {{f} : f \in {g \in rows : \A h \in rows :
                   cosine_distance(g.embedding, q) <= cosine_distance(h.embedding, q)}}
         ELSE {{f} : f \in rows}

-----------------------------------------------------------------------------
(* recognize_user, both implementations.  The outcome of a call is the     *)
(* response together with what the call did: the query embedding it        *)
(* extracted, the store queries it issued, the candidate it decided on.    *)

Outcome(response, query, queries, best_match) ==
    [resp |-> response, query |-> query, queries |-> queries, best_match |-> best_match]

\* a faulty handler for a failed store query: answer as for an empty store
recognize_except_no_match(e) ==
    IF e.raised \in {"ImageProcessingError", "NoFaceDetectedError", "MultipleFacesDetectedError"}
    THEN HTTPException(422, e.msg)
    ELSE IF e.raised = "SQLAlchemyError"
         THEN [kind |-> "RecognizeResponse", match |-> FALSE, user_id |-> None,
               similarity |-> 0]
         ELSE HTTPException(500, "Recognition failed")

\* the except clauses of recognize_user
recognize_except(e) ==
    IF e.raised \in {"ImageProcessingError", "NoFaceDetectedError", "MultipleFacesDetectedError"}
    THEN HTTPException(422, e.msg)
    ELSE IF e.raised = "SQLAlchemyError"
         THEN HTTPException(500, "Database error occurred")
         ELSE HTTPException(500, "Recognition failed")

\* return RecognizeResponse(...) inside the try block
returned(r) == IF r.raised # "" THEN recognize_except(r) ELSE r.value

\* a faulty answer for an empty table: an error
empty_store_not_found == HTTPException(404, "No faces in database")

\* the answer when the table has no rows
empty_store_response == returned(RecognizeResponse(FALSE, None, 0))

RECURSIVE scan_loop(_, _, _, _, _, _)
scan_loop(matcher, query_embedding, rows, i, best_match, best_similarity) ==
    IF i > Len(rows)
    THEN [raised |-> "", best_match |-> best_match, best_similarity |-> best_similarity]
    ELSE LET s == similarity(query_embedding, rows[i].embedding) IN
         IF s.raised # ""
         THEN [raised |-> s.raised, msg |-> s.msg, best_match |-> best_match,
               best_similarity |-> best_similarity]
         ELSE IF s.value > best_similarity
              THEN scan_loop(matcher, query_embedding, rows, i + 1, {rows[i]}, s.value)
              ELSE scan_loop(matcher, query_embedding, rows, i + 1, best_match, best_similarity)

scan_decision(matcher, query_embedding, best_match, best_similarity) ==
    LET hit == IF best_match = {}
               THEN Val(FALSE)
               ELSE match(query_embedding, (CHOOSE f \in best_match : TRUE).embedding,
                          matcher.threshold)
    IN  IF hit.raised # ""
        THEN recognize_except(hit)
        ELSE IF hit.value
             THEN returned(RecognizeResponse(TRUE, (CHOOSE f \in best_match : TRUE).user_id,
                                             clamp(best_similarity)))
             ELSE returned(RecognizeResponse(FALSE, None, clamp(best_similarity)))

\* benchmarks/patched_recognition.py: load every row, score each in Python
recognize_user_scan(file, matcher, db) ==
    LET v == validate_image(file) IN
    IF v.raised # ""
    THEN Outcome(HTTPException(422, v.msg), <<>>, <<>>, {})
    ELSE
    LET embedding_obj == extract_embedding(file) IN
    IF embedding_obj.raised # ""
    THEN Outcome(recognize_except(embedding_obj), <<>>, <<>>, {})
    ELSE
    LET query_embedding == embedding_obj.value.embedding IN
    IF db.fail
    THEN Outcome(recognize_except(Raised("SQLAlchemyError", "")), query_embedding, <<"all">>, {})
    ELSE
    IF Len(db.all) = 0
    THEN Outcome(empty_store_response, query_embedding, <<"all">>, {})
    ELSE
    LET scan == scan_loop(matcher, query_embedding, db.all, 1, {}, 0 - One) IN
    IF scan.raised # ""
    THEN Outcome(recognize_except(scan), query_embedding, <<"all">>, scan.best_match)
    ELSE Outcome(scan_decision(matcher, query_embedding, scan.best_match, scan.best_similarity),
                 query_embedding, <<"all">>, scan.best_match)

\* a faulty decision: the threshold itself does not match
indexed_decision_strict(matcher, best_face, sim) ==
    IF sim > matcher.threshold
    THEN returned(RecognizeResponse(TRUE, best_face.user_id, clamp(sim)))
    ELSE returned(RecognizeResponse(FALSE, None, clamp(sim)))

\* a faulty decision: a miss reports the empty-store similarity
indexed_decision_sentinel(matcher, best_face, sim) ==
    IF sim >= matcher.threshold
    THEN returned(RecognizeResponse(TRUE, best_face.user_id, clamp(sim)))
    ELSE returned(RecognizeResponse(FALSE, None, 0))

\* a faulty decision: a miss names the owner of the candidate
indexed_decision_names_miss(matcher, best_face, sim) ==
    IF sim >= matcher.threshold
    THEN returned(RecognizeResponse(TRUE, best_face.user_id, clamp(sim)))
    ELSE returned(RecognizeResponse(FALSE, best_face.user_id, clamp(sim)))

\* a faulty decision: the comparison is inverted
indexed_decision_inverted(matcher, best_face, sim) ==
    IF sim <= matcher.threshold
    THEN returned(RecognizeResponse(TRUE, best_face.user_id, clamp(sim)))
    ELSE returned(RecognizeResponse(FALSE, None, clamp(sim)))

\* a faulty decision: a face detected with low confidence never matches
indexed_decision_scored(matcher, best_face, sim) ==
    IF sim >= matcher.threshold /\ best_face.detection_score >= 50
    THEN returned(RecognizeResponse(TRUE, best_face.user_id, clamp(sim)))
    ELSE returned(RecognizeResponse(FALSE, None, clamp(sim)))

\* a faulty decision: the deployed threshold is used whatever the matcher's is
indexed_decision_fixed(matcher, best_face, sim) ==
    IF sim >= DefaultThreshold
    THEN returned(RecognizeResponse(TRUE, best_face.user_id, clamp(sim)))
    ELSE returned(RecognizeResponse(FALSE, None, clamp(sim)))

indexed_decision(matcher, best_face, sim) ==
    IF sim >= matcher.threshold
    THEN returned(RecognizeResponse(TRUE, best_face.user_id, clamp(sim)))
    ELSE returned(RecognizeResponse(FALSE, None, clamp(sim)))

\* app/services/recognition.py: one ORDER BY cosine_distance LIMIT 1 query
recognize_user(file, matcher, db) ==
    LET v == validate_image(file) IN
    IF v.raised # ""
    THEN Outcome(HTTPException(422, v.msg), <<>>, <<>>, {})
    ELSE
    LET embedding_obj == extract_embedding(file) IN
    IF embedding_obj.raised # ""
    THEN Outcome(recognize_except(embedding_obj), <<>>, <<>>, {})
    ELSE
    LET query_embedding == embedding_obj.value.embedding IN
    IF db.fail \/ Len(query_embedding) # EmbeddingDim
    THEN Outcome(recognize_except(Raised("SQLAlchemyError", "")), query_embedding, <<"first">>, {})
    ELSE
    IF db.first = {}
    THEN Outcome(empty_store_response, query_embedding, <<"first">>, {})
    ELSE
    LET best_face == CHOOSE f \in db.first : TRUE
        sim == One - cosine_distance(best_face.embedding, query_embedding)
    IN  Outcome(indexed_decision(matcher, best_face, sim), query_embedding, <<"first">>,
                db.first)

-----------------------------------------------------------------------------
(* register_user and the delete services.  Each returns its response and   *)
(* the rows of the three tables as its session leaves them.                *)

Tables(response, a, u, f) ==
    [resp |-> response, auth_users |-> a, users |-> u, faces |-> f]

RegisterResponse(user_id) ==
    [kind |-> "RegisterResponse", user_id |-> user_id, is_registered |-> TRUE]

NoContent == [kind |-> "NoContent", status_code |-> 204]

register_except(e) ==
    IF e.raised \in {"ImageProcessingError", "NoFaceDetectedError", "MultipleFacesDetectedError"}
    THEN HTTPException(422, e.msg)
    ELSE IF e.raised = "SQLAlchemyError"
         THEN HTTPException(500, "Database error occurred")
         ELSE HTTPException(500, "Registration failed")

\* `flush_fails` is db.flush() raising; a vector of the wrong dimension is
\* refused by the Vector(512) column at flush as well
register_user(file, db, auth_user_id, new_id) ==
    LET unchanged(response) == Tables(response, auth_users, users, faces)
        v == validate_image(file)
    IN
    IF v.raised # ""
    THEN unchanged(register_except(v))
    ELSE
    LET embedding_obj == extract_embedding(file) IN
    IF embedding_obj.raised # ""
    THEN unchanged(register_except(embedding_obj))
    ELSE
    IF \E existing \in users : existing.auth_user_id = auth_user_id
    THEN unchanged(HTTPException(409, "Biometric data already registered. Delete existing profile first."))
    ELSE
    IF db.flush_fails \/ Len(embedding_obj.value.embedding) # EmbeddingDim
    THEN unchanged(register_except(Raised("SQLAlchemyError", "")))
    ELSE
    LET user == [user_id |-> new_id, auth_user_id |-> auth_user_id]
        face == [face_id |-> new_id, user_id |-> new_id,
                 embedding |-> embedding_obj.value.embedding,
                 detection_score |-> embedding_obj.value.detection_score]
    IN  Tables(RegisterResponse(new_id), auth_users, users \cup {user}, faces \cup {face})

\* a faulty schema: users.auth_user_id without its unique index
unique_not_enforced(committed, auth_user_id) == FALSE

\* the unique index on users.auth_user_id: the INSERT of a second users row
\* for an auth user that has a committed one raises IntegrityError
unique_violation(committed, auth_user_id) ==
    \E u \in committed : u.auth_user_id = auth_user_id

\* a faulty commit: the users row is written without its faces row
commit_identity_only(session) ==
    [users |-> users \cup session.users, faces |-> faces]

\* db.commit(): the flushed rows of the session become the committed rows
commit(session) ==
    [users |-> users \cup session.users, faces |-> faces \cup session.faces]

\* db.rollback(): the flushed rows are dropped
rollback(session) == [users |-> users, faces |-> faces]

\* a faulty delete: the rows of the users stay
cascade_keeps_users(response, gone_auth, gone_users) ==
    Tables(response, {a \in auth_users : a.auth_user_id \notin gone_auth}, users, faces)

\* a faulty delete: the users rows go, their faces rows stay
cascade_users_only(response, gone_auth, gone_users) ==
    LET dead == {u \in users : u \in gone_users \/ u.auth_user_id \in gone_auth} IN
    Tables(response, {a \in auth_users : a.auth_user_id \notin gone_auth},
           users \ dead, faces)

\* ON DELETE CASCADE / cascade="all, delete-orphan": the rows left once the
\* auth users in `gone_auth` and the users in `gone_users` are deleted
cascade(response, gone_auth, gone_users) ==
    LET dead == {u \in users : u \in gone_users \/ u.auth_user_id \in gone_auth} IN
    Tables(response,
           {a \in auth_users : a.auth_user_id \notin gone_auth},
           users \ dead,
           {f \in faces : \A u \in dead : f.user_id # u.user_id})

delete_me(delete_auth_user, current_user) ==
    IF delete_auth_user
    THEN cascade(NoContent, {current_user.auth_user_id}, {})
    ELSE LET biometric_user == {u \in users : u.auth_user_id = current_user.auth_user_id} IN
         IF biometric_user # {}
         THEN cascade(NoContent, {}, biometric_user)
         ELSE Tables(HTTPException(404, "No biometric data found"), auth_users, users, faces)

\* a faulty delete: an unknown user_id is answered 204
delete_user_silent(user_id, delete_auth_user) ==
    LET user == {u \in users : u.user_id = user_id} IN
    IF delete_auth_user
    THEN cascade(NoContent, {u.auth_user_id : u \in user}, user)
    ELSE cascade(NoContent, {}, user)

delete_user(user_id, delete_auth_user) ==
    LET user == {u \in users : u.user_id = user_id} IN
    IF user = {}
    THEN Tables(HTTPException(404, "User not found"), auth_users, users, faces)
    ELSE IF delete_auth_user
         THEN cascade(NoContent, {u.auth_user_id : u \in user}, user)
         ELSE cascade(NoContent, {}, user)

-----------------------------------------------------------------------------
(* The state machine.  resp is the response of the request being answered  *)
(* and call the record of what its handler did; Send ends the request.     *)

Init ==
    /\ auth_users = {[auth_user_id |-> "root", is_admin |-> TRUE],
                     [auth_user_id |-> "alice", is_admin |-> FALSE]}
    /\ users = {}
    /\ faces = {}
    /\ next_id = 1
    /\ pending = NoPending
    /\ resp = NoResponse
    /\ call = NoCall
    /\ matcher_instance = [kind |-> "None"]
    /\ deleted = {}

\* a faulty recognition: the query embedding is kept as a row of faces
recognize_persists_query(out) ==
    IF out.query = <<>> \/ users = {}
    THEN {}
    ELSE {[face_id |-> "query", user_id |-> (CHOOSE u \in users : TRUE).user_id,
           embedding |-> out.query, detection_score |-> 95]}

\* the rows a call to recognize_user adds to the store: it calls neither
\* db.add nor db.delete, and get_db commits an unchanged session
recognize_writes(out) == {}

\* what a call to recognize_user did.  The database decides how it answers
\* (fail, exact) when it is queried: a call that issued no query saw neither.
RecognizeCall(impl, file, threshold, fail, exact, out) ==
    [op |-> "recognize", impl |-> impl, file |-> file, threshold |-> threshold,
     db_failed |-> fail /\ out.queries # <<>>,
     exact |-> exact \/ out.queries = <<>> \/ fail,
     query |-> out.query, queries |-> out.queries, best_match |-> out.best_match]

\* POST /recognize served by the linear-scan implementation
RecognizeScan ==
    /\ resp = NoResponse
    /\ \E file \in Files, threshold \in Thresholds, fail \in BOOLEAN, all \in Orders(JoinedFaces) :
         LET out == recognize_user_scan(file, [threshold |-> threshold],
                                        Session(fail, all, {}))
         IN  /\ resp' = out.resp
             /\ call' = RecognizeCall("scan", file, threshold, fail, TRUE, out)
             /\ faces' = faces \cup recognize_writes(out)
    /\ UNCHANGED <<auth_users, users, next_id, pending, matcher_instance, deleted>>

\* POST /recognize served by the pgvector implementation
RecognizeIndexed ==
    /\ resp = NoResponse
    /\ \E file \in Files, threshold \in Thresholds, fail \in BOOLEAN, exact \in BOOLEAN :
         LET e == extract_embedding(file)
             q == IF e.raised # "" THEN <<>> ELSE e.value.embedding
         IN  \E first \in NearestRows(JoinedFaces, q, exact) :
               LET out == recognize_user(file, [threshold |-> threshold],
                                         Session(fail, <<>>, first))
               IN  /\ resp' = out.resp
                   /\ call' = RecognizeCall("indexed", file, threshold, fail, exact, out)
                   /\ faces' = faces \cup recognize_writes(out)
    /\ UNCHANGED <<auth_users, users, next_id, pending, matcher_instance, deleted>>

\* POST /register up to the return of register_user: the rows are flushed in
\* the request's session, get_db has not committed them yet.  One
\* registration is in flight at a time.
Register ==
    /\ resp = NoResponse
    /\ pending = NoPending
    /\ next_id <= MaxIds
    /\ \E current_user \in auth_users, file \in Files, fail \in {"none", "flush"} :
         LET out == register_user(file, [flush_fails |-> fail = "flush"],
                                  current_user.auth_user_id, Ids[next_id])
             ok == out.resp.kind = "RegisterResponse"
         IN  /\ pending' = IF ok
                            THEN [users |-> out.users \ users, faces |-> out.faces \ faces]
                            ELSE NoPending
             /\ resp' = out.resp
             /\ call' = [op |-> "register", auth_user_id |-> current_user.auth_user_id,
                         file |-> file,
                         fail |-> IF out.resp.kind = "HTTPException"
                                     /\ out.resp.detail = "Database error occurred"
                                  THEN fail ELSE "none"]
    /\ UNCHANGED <<auth_users, users, faces, next_id, matcher_instance, deleted>>

\* POST /register by a user whose earlier registration is flushed and not
\* yet committed, with an upload that passes every step before the INSERT.
\* The handler sees no committed profile; its INSERT waits on the unique
\* index of users.auth_user_id until the earlier session ends.
RegisterConcurrent ==
    /\ resp = NoResponse
    /\ pending # NoPending
    /\ \E current_user \in auth_users, file \in Files :
         /\ \E u \in pending.users : u.auth_user_id = current_user.auth_user_id
         /\ LET out == register_user(file, [flush_fails |-> FALSE],
                                     current_user.auth_user_id, Ids[next_id])
            IN  /\ out.resp.kind = "RegisterResponse"
                /\ resp' = Waiting
                /\ call' = [op |-> "register", auth_user_id |-> current_user.auth_user_id,
                            file |-> file, fail |-> "none"]
    /\ UNCHANGED <<auth_users, users, faces, next_id, pending, matcher_instance, deleted>>

\* get_db after the yield: db.commit() of the flushed registration, or its
\* failure and db.rollback().  It runs once register_user has returned, before
\* or after the response is sent; a failure before the response is sent
\* replaces the response.  A registration waiting on the unique index goes
\* on when the session ends: its INSERT fails if a row of its auth user was
\* committed, and is flushed otherwise.
Commit ==
    /\ pending # NoPending
    /\ resp = NoResponse \/ call.op \in {"register", "POST /register"}
    /\ \E fail \in BOOLEAN :
         LET out == IF fail THEN rollback(pending) ELSE commit(pending)
             ids == IF fail THEN next_id ELSE next_id + 1
         IN
         /\ users' = out.users
         /\ faces' = out.faces
         /\ next_id' = ids
         /\ IF resp = Waiting
            THEN LET refused == unique_violation(out.users, call.auth_user_id)
                     second == register_user(call.file, [flush_fails |-> refused],
                                             call.auth_user_id, Ids[ids])
                 IN  /\ resp' = second.resp
                     /\ call' = [call EXCEPT !.fail = IF refused THEN "unique" ELSE "none"]
                     /\ pending' = IF refused
                                    THEN NoPending
                                    ELSE [users |-> second.users \ users,
                                          faces |-> second.faces \ faces]
            ELSE /\ resp' = IF fail /\ resp # NoResponse
                              THEN HTTPException(500, "Internal Server Error")
                              ELSE resp
                 /\ call' = call
                 /\ pending' = NoPending
    /\ UNCHANGED <<auth_users, matcher_instance, deleted>>

\* the delete_me service called for an authenticated user
DeleteMe ==
    /\ resp = NoResponse
    /\ \E current_user \in auth_users, delete_auth_user \in BOOLEAN :
         LET out == delete_me(delete_auth_user, current_user) IN
         \* the flushed users row holds a key-share lock on its auth_users row
         /\ ~(delete_auth_user
              /\ \E u \in pending.users : u.auth_user_id = current_user.auth_user_id)
         /\ auth_users' = out.auth_users
         /\ users' = out.users
         /\ faces' = out.faces
         /\ resp' = out.resp
         /\ call' = [op |-> "delete_me", auth_user_id |-> current_user.auth_user_id,
                     delete_auth_user |-> delete_auth_user,
                     found |-> delete_auth_user
                               \/ \E u \in users : u.auth_user_id = current_user.auth_user_id,
                     gone |-> {u.user_id : u \in users \ out.users}]
         /\ deleted' = IF out.resp = NoContent
                        THEN deleted \cup {u.user_id : u \in {x \in users :
                                               x.auth_user_id = current_user.auth_user_id}}
                        ELSE deleted
    /\ UNCHANGED <<next_id, pending, matcher_instance>>

\* the delete_user service called on behalf of an admin
DeleteUser ==
    /\ resp = NoResponse
    /\ \E admin \in auth_users, n \in 1..MaxIds, delete_auth_user \in BOOLEAN :
         /\ admin.is_admin
         /\ LET out == delete_user(Ids[n], delete_auth_user) IN
            /\ auth_users' = out.auth_users
            /\ users' = out.users
            /\ faces' = out.faces
            /\ resp' = out.resp
            /\ call' = [op |-> "delete_user", user_id |-> Ids[n],
                        delete_auth_user |-> delete_auth_user,
                        found |-> \E u \in users : u.user_id = Ids[n],
                        gone |-> {u.user_id : u \in users \ out.users}]
            /\ deleted' = IF out.resp = NoContent THEN deleted \cup {Ids[n]} ELSE deleted
    /\ UNCHANGED <<next_id, pending, matcher_instance>>

\* the response is sent and the request is over
Send ==
    /\ resp # NoResponse
    /\ resp # Waiting
    /\ resp' = NoResponse
    /\ call' = NoCall
    /\ UNCHANGED <<auth_users, users, faces, next_id, pending, matcher_instance, deleted>>

Next ==
    \/ RecognizeScan
    \/ RecognizeIndexed
    \/ Register
    \/ RegisterConcurrent
    \/ Commit
    \/ DeleteMe
    \/ DeleteUser
    \/ Send

Spec == Init /\ [][Next]_vars

-----------------------------------------------------------------------------
(* The scorer on its own: InsightFaceMatcher.similarity and .match applied *)
(* to every pair of embeddings, for every threshold.                       *)

ScorerInit ==
    /\ auth_users = {}
    /\ users = {}
    /\ faces = {}
    /\ next_id = 1
    /\ pending = NoPending
    /\ resp = NoResponse
    /\ call \in {[op |-> "scorer", e1 |-> a, e2 |-> b, threshold |-> t] :
                 a \in Embeddings, b \in Embeddings, t \in Thresholds}
    /\ matcher_instance = [kind |-> "None"]
    /\ deleted = {}

Scored(kind, s) ==
    IF s.raised # ""
    THEN [kind |-> "raised", raised |-> s.raised]
    ELSE [kind |-> kind, value |-> s.value]

ScoreSimilarity ==
    /\ call.op = "scorer"
    /\ resp' = Scored("float", similarity(call.e1, call.e2))
    /\ call' = [call EXCEPT !.op = "similarity"]
    /\ UNCHANGED <<auth_users, users, faces, next_id, pending, matcher_instance, deleted>>

ScoreMatch ==
    /\ call.op = "scorer"
    /\ resp' = Scored("bool", match(call.e1, call.e2, call.threshold))
    /\ call' = [call EXCEPT !.op = "match"]
    /\ UNCHANGED <<auth_users, users, faces, next_id, pending, matcher_instance, deleted>>

ScorerNext == ScoreSimilarity \/ ScoreMatch

ScorerSpec == ScorerInit /\ [][ScorerNext]_vars

-----------------------------------------------------------------------------
(* The routes: the dependencies of POST /recognize and POST /register      *)
(* (valid_content_length, get_matcher) in front of the services, and the   *)
(* DELETE routes.                                                          *)

RouteFiles ==
    {[header_len |-> 2, signature |-> "known", decodable |-> TRUE, detected |-> <<>>],
     GoodFile(<<DetectedFace(<<6, 8>>, 95)>>),
     GoodFile(<<DetectedFace(<<10, 0>>, 95)>>)}

\* an UploadFile: its size, its read position and what it holds
Uploads ==
    {[size |-> n, position |-> 0, content |-> f] : n \in 0..MaxBytes, f \in RouteFiles}

\* the loop of valid_content_length: chunks are read and counted until the
\* file ends or the count exceeds MAX_FILE_SIZE
RECURSIVE read_chunks(_, _)
read_chunks(file, real_size) ==
    LET chunk == Min(ChunkSize, file.size - file.position) IN
    IF chunk = 0
    THEN Val(file)
    ELSE IF real_size + chunk > MAX_FILE_SIZE
         THEN Raised("HTTPException", "File too large")
         ELSE read_chunks([file EXCEPT !.position = @ + chunk], real_size + chunk)

\* a faulty dependency: the file is passed on where the loop left it
valid_content_length_no_rewind(file) == read_chunks(file, 0)

valid_content_length(file) ==
    LET counted == read_chunks(file, 0) IN
    IF counted.raised # ""
    THEN counted
    ELSE Val([counted.value EXCEPT !.position = 0])

\* what the services read of an UploadFile from its position: read() at the
\* end of the file returns b'', and a header read from the middle of the
\* file carries no signature
file_at(upload) ==
    IF upload.position >= upload.size
    THEN [upload.content EXCEPT !.header_len = 0]
    ELSE IF upload.position = 0
         THEN upload.content
         ELSE [upload.content EXCEPT !.signature = "unknown"]

\* _matcher_instance before the first call of get_matcher
NoInstance == [kind |-> "None"]

InsightFaceMatcher(threshold) == [kind |-> "InsightFaceMatcher", threshold |-> threshold]

\* a faulty dependency: the matcher is rebuilt with another threshold
get_matcher_retuned(instance) ==
    IF instance = NoInstance
    THEN InsightFaceMatcher(DefaultThreshold)
    ELSE InsightFaceMatcher(instance.threshold + 10)

\* get_matcher: the instance it returns, which is _matcher_instance afterwards
get_matcher(instance) ==
    IF instance = NoInstance
    THEN InsightFaceMatcher(DefaultThreshold)
    ELSE instance

\* POST /recognize
PostRecognize ==
    /\ resp = NoResponse
    /\ \E upload \in Uploads, fail \in BOOLEAN, exact \in BOOLEAN :
         LET file == valid_content_length(upload) IN
         IF file.raised # ""
         THEN /\ resp' = HTTPException(413, file.msg)
              /\ call' = [op |-> "POST /recognize", upload |-> upload, served |-> FALSE]
              /\ matcher_instance' = matcher_instance
         ELSE LET matcher == get_matcher(matcher_instance)
                  e == extract_embedding(file_at(file.value))
                  q == IF e.raised # "" THEN <<>> ELSE e.value.embedding
              IN  \E first \in NearestRows(JoinedFaces, q, exact) :
                    LET out == recognize_user(file_at(file.value), matcher,
                                              Session(fail, <<>>, first))
                    IN  /\ resp' = out.resp
                        /\ call' = [op |-> "POST /recognize", upload |-> upload,
                                    served |-> TRUE, passed |-> file.value,
                                    threshold |-> matcher.threshold,
                                    best_match |-> out.best_match]
                        /\ matcher_instance' = matcher
    /\ UNCHANGED <<auth_users, users, faces, next_id, pending, deleted>>

\* POST /register up to the return of register_user
PostRegister ==
    /\ resp = NoResponse
    /\ pending = NoPending
    /\ next_id <= MaxIds
    /\ \E current_user \in auth_users, upload \in Uploads :
         LET file == valid_content_length(upload) IN
         IF file.raised # ""
         THEN /\ resp' = HTTPException(413, file.msg)
              /\ call' = [op |-> "POST /register", upload |-> upload, served |-> FALSE]
              /\ pending' = pending
         ELSE LET out == register_user(file_at(file.value), [flush_fails |-> FALSE],
                                       current_user.auth_user_id, Ids[next_id])
              IN  /\ resp' = out.resp
                  /\ call' = [op |-> "POST /register", upload |-> upload,
                              served |-> TRUE, passed |-> file.value,
                              auth_user_id |-> current_user.auth_user_id]
                  /\ pending' = IF out.resp.kind = "RegisterResponse"
                                 THEN [users |-> out.users \ users,
                                       faces |-> out.faces \ faces]
                                 ELSE NoPending
    /\ UNCHANGED <<auth_users, users, faces, next_id, matcher_instance, deleted>>

\* The body of the route function delete_me, and of delete_user alike: its
\* one statement calls the module's global of that name.  The name imported
\* from app.services.deletion is rebound by the def of the route function,
\* so the call enters the route function again, frame upon frame, until the
\* interpreter raises RecursionError.  `service_calls` counts the calls of
\* the deletion service.
RECURSIVE routes_delete(_)
routes_delete(frames) ==
    IF frames >= RecursionLimit
    THEN [raised |-> "RecursionError", frames |-> frames, service_calls |-> 0]
    ELSE routes_delete(frames + 1)

\* DELETE /me
DeleteMeRoute ==
    /\ resp = NoResponse
    /\ \E current_user \in auth_users, delete_auth_user \in BOOLEAN :
         LET out == routes_delete(1) IN
         /\ resp' = IF out.raised # ""
                    THEN HTTPException(500, "Internal Server Error")
                    ELSE NoContent
         /\ call' = [op |-> "DELETE /me", auth_user_id |-> current_user.auth_user_id,
                     delete_auth_user |-> delete_auth_user,
                     found |-> \E u \in users : u.auth_user_id = current_user.auth_user_id,
                     service_calls |-> out.service_calls]
    /\ UNCHANGED <<auth_users, users, faces, next_id, pending, matcher_instance, deleted>>

\* DELETE /{user_id}, admin only
DeleteUserRoute ==
    /\ resp = NoResponse
    /\ \E admin \in auth_users, n \in 1..MaxIds, delete_auth_user \in BOOLEAN :
         /\ admin.is_admin
         /\ LET out == routes_delete(1) IN
            /\ resp' = IF out.raised # ""
                       THEN HTTPException(500, "Internal Server Error")
                       ELSE NoContent
            /\ call' = [op |-> "DELETE /{user_id}", user_id |-> Ids[n],
                        delete_auth_user |-> delete_auth_user,
                        found |-> \E u \in users : u.user_id = Ids[n],
                        service_calls |-> out.service_calls]
    /\ UNCHANGED <<auth_users, users, faces, next_id, pending, matcher_instance, deleted>>

RouteNext ==
    \/ PostRecognize
    \/ PostRegister
    \/ Commit
    \/ DeleteMeRoute
    \/ DeleteUserRoute
    \/ Send

RouteSpec == Init /\ [][RouteNext]_vars

-----------------------------------------------------------------------------
(* Vocabulary of the properties *)

IsRecognize == call.op = "recognize"

IsResult == resp.kind = "RecognizeResponse"

Scanned == IsRecognize /\ call.impl = "scan"

Indexed == IsRecognize /\ call.impl = "indexed"

\* the embedder produced a query of the stored dimension
ValidQuery == IsRecognize /\ Len(call.query) = EmbeddingDim

\* the query was compared with at least one stored embedding
Compared == ValidQuery /\ ~call.db_failed /\ JoinedFaces # {}

InRange(s) == s >= 0 - One /\ s <= One

Bounded(s) == IF InRange(s) THEN s ELSE IF s > 0 THEN One ELSE 0 - One

MaxOf(S) == CHOOSE m \in S : \A n \in S : n <= m

StoredSimilarities(q) == {Dot(q, f.embedding) : f \in JoinedFaces}

CosineSimilarity(a, b) == (One * Dot(a, b)) \div (Norm(a) * Norm(b))

\* the similarity of the best candidate: the largest dot product over the
\* store for the scan, the cosine similarity of the returned row for the index
BestSimilarity ==
    IF call.impl = "scan"
    THEN MaxOf(StoredSimilarities(call.query))
    ELSE CosineSimilarity((CHOOSE f \in call.best_match : TRUE).embedding, call.query)

EmptyResult ==
    [kind |-> "RecognizeResponse", match |-> FALSE, user_id |-> None, similarity |-> 0]

-----------------------------------------------------------------------------
(* Properties *)

\* C1: on a non-empty store the linear scan decides on a stored embedding
\* whose similarity to the query is the maximum over the store, and reports
\* that maximum, clamped.
C1_ScanDecidesOnMaximum ==
    (Scanned /\ Compared) =>
        /\ IsResult
        /\ call.best_match # {}
        /\ call.best_match \subseteq JoinedFaces
        /\ \A f \in call.best_match :
             /\ Dot(call.query, f.embedding) = MaxOf(StoredSimilarities(call.query))
             /\ resp.match => resp.user_id = f.user_id
        /\ resp.similarity = Bounded(MaxOf(StoredSimilarities(call.query)))

\* C2: a best candidate whose similarity is at or above the threshold gives
\* match = true with the candidate's owner as user_id; matcher.match, which
\* the scan decides with, is exactly similarity >= threshold.
C2_MatchAtOrAboveThreshold ==
    /\ (Indexed /\ Compared) =>
         /\ call.best_match # {}
         /\ \A f \in call.best_match :
              CosineSimilarity(f.embedding, call.query) >= call.threshold =>
                  IsResult /\ resp.match /\ resp.user_id = f.user_id
    /\ (Scanned /\ Compared /\ call.best_match # {}) =>
         \A f \in call.best_match :
              /\ IsResult
              /\ resp.match = (Dot(call.query, f.embedding) >= call.threshold)
              /\ resp.match => resp.user_id = f.user_id

C2_Witness ==
    /\ Indexed /\ Compared /\ IsResult
    /\ resp.match
    /\ BestSimilarity = call.threshold
    /\ call.threshold > 0

\* C3: on a non-empty store, a best candidate below the threshold gives
\* match = false, user_id = None and the candidate's clamped similarity.
C3_MissReportsBestSimilarity ==
    (Compared /\ BestSimilarity < call.threshold) =>
        /\ IsResult
        /\ ~resp.match
        /\ resp.user_id = None
        /\ resp.similarity = Bounded(BestSimilarity)

C3_Witness ==
    /\ Indexed /\ Compared /\ IsResult
    /\ Cardinality(JoinedFaces) = 1
    /\ call.threshold = DefaultThreshold
    /\ ~resp.match
    /\ resp.similarity = 60

\* C4: on an empty store every valid query gets match = false,
\* user_id = None, similarity = 0.0 as a normal result.
C4_EmptyStoreResult ==
    (ValidQuery /\ ~call.db_failed /\ JoinedFaces = {}) => resp = EmptyResult

C4_Witness ==
    /\ ValidQuery /\ ~call.db_failed /\ JoinedFaces = {}
    /\ call.queries # <<>>
    /\ IsResult

\* C5: the match flag equals (clamp(similarity) >= threshold), for every
\* similarity and every threshold.
C5_MatchIsClampedComparison ==
    (Compared /\ IsResult) =>
        resp.match = (Bounded(BestSimilarity) >= call.threshold)

\* C6: every result has its similarity inside [-1, 1], whichever
\* implementation answers and whatever the stored vectors are: a similarity
\* outside the range is reported clamped, it does not fail the request.
C6_SimilarityInRange ==
    /\ IsResult => InRange(resp.similarity)
    /\ (ValidQuery /\ ~call.db_failed) => IsResult

C6_Witness ==
    /\ Compared /\ IsResult
    /\ ~InRange(BestSimilarity)
    /\ resp.similarity = One

\* C7: similarity(a, b) of two embeddings of equal dimension lies in [-1, 1].
C7_ScorerClamps ==
    (call.op = "similarity" /\ Len(call.e1) = Len(call.e2)) =>
        resp.kind = "float" /\ InRange(resp.value)

\* C8: a query of the wrong dimension fails the request before the store is
\* queried.
C8_WrongDimensionRejectedFirst ==
    (IsRecognize /\ call.query # <<>> /\ Len(call.query) # EmbeddingDim) =>
        /\ resp.kind = "HTTPException"
        /\ call.queries = <<>>

\* C9: similarity raises on vectors of different lengths, and a recognition
\* whose query differs in length from a stored vector fails with an error:
\* it is neither skipped nor answered with a match or a miss.
C9_MismatchFailsRequest ==
    /\ \A e1 \in Embeddings, e2 \in Embeddings :
         Len(e1) # Len(e2) => similarity(e1, e2).raised = "ValueError"
    /\ (IsRecognize /\ call.query # <<>>
        /\ \E f \in JoinedFaces : Len(f.embedding) # Len(call.query)) =>
         /\ resp.kind = "HTTPException"
         /\ resp.status_code = 500
         /\ (Scanned /\ ~call.db_failed) => resp.detail = "Recognition failed"

C9_Witness ==
    /\ Scanned /\ ~call.db_failed
    /\ call.query # <<>>
    /\ \E f \in JoinedFaces : Len(f.embedding) # Len(call.query)
    /\ resp.kind = "HTTPException"

\* C10: a failed store query ends the request with HTTP 500 'Database error
\* occurred', never with a result; the query is issued once and only by the
\* implementation that serves the request.
C10_StoreFailureSurfaces ==
    (IsRecognize /\ call.db_failed) =>
        /\ resp = HTTPException(500, "Database error occurred")
        /\ call.queries = IF call.impl = "scan" THEN <<"all">> ELSE <<"first">>

C10_Witness ==
    /\ ValidQuery /\ call.db_failed
    /\ JoinedFaces # {}
    /\ resp.kind = "HTTPException"

\* C11: registration is atomic.  In every state each committed users row has
\* its faces row and each faces row its users row, and a registration that
\* failed, at any step up to the commit, left neither row of its identity.
C11_RegistrationAtomic ==
    /\ {u.user_id : u \in users} = {f.user_id : f \in faces}
    /\ (call.op = "register" /\ resp.kind = "HTTPException") =>
         /\ pending = NoPending
         /\ \A r \in users \cup faces : r.user_id # Ids[next_id]

\* a registration whose commit failed, next to a committed identity
C11_Witness ==
    /\ call.op = "register"
    /\ resp = HTTPException(500, "Internal Server Error")
    /\ users # {}

\* C12: a registration reported complete (RegisterResponse) has its vector
\* committed and visible to the queries of other sessions from then on.
C12_ReportedMeansCommitted ==
    /\ resp.kind = "RegisterResponse" =>
         \E f \in JoinedFaces : f.user_id = resp.user_id
    /\ resp = NoResponse => pending = NoPending

\* C13: under every interleaving a recognition uses committed, complete rows
\* only: its candidate is a committed faces row of full dimension whose
\* owner is committed, and a user_id it returns is a committed identity.
C13_QuerySeesCommittedRows ==
    IsRecognize =>
        /\ \A f \in call.best_match :
             /\ f \in faces
             /\ Len(f.embedding) = EmbeddingDim
             /\ \E u \in users : u.user_id = f.user_id
        /\ (IsResult /\ resp.match) =>
             /\ \E u \in users : u.user_id = resp.user_id
             /\ \A u \in pending.users : u.user_id # resp.user_id

\* a recognition answered from a non-empty store while a registration is
\* flushed and not committed
C13_Witness ==
    /\ IsRecognize /\ IsResult
    /\ resp.match
    /\ pending # NoPending

\* C14: deleting an identity removes its embeddings.  Every stored embedding
\* has an existing owner, and after delete_user or delete_me completes no
\* row of a deleted identity remains.
C14_DeleteCascades ==
    /\ \A f \in faces : \E u \in users : u.user_id = f.user_id
    /\ \A u \in users : \E a \in auth_users : a.auth_user_id = u.auth_user_id
    /\ (call.op \in {"delete_me", "delete_user"} /\ resp = NoContent) =>
         \A r \in users \cup faces : r.user_id \notin call.gone

C14_Witness ==
    /\ call.op \in {"delete_me", "delete_user"}
    /\ resp = NoContent
    /\ call.gone # {}
    /\ faces # {}

\* the query embedding recognize_user extracts from a file, <<>> if it fails
QueryOf(file) ==
    LET e == extract_embedding(file) IN
    IF validate_image(file).raised # "" \/ e.raised # "" THEN <<>> ELSE e.value.embedding

\* the responses of the linear scan on the rows `rows`, in any row order
ScanResponses(file, threshold, rows) ==
    {recognize_user_scan(file, [threshold |-> threshold], Session(FALSE, all, {})).resp :
        all \in Orders(rows)}

\* the responses of the pgvector implementation on the rows `rows`
IndexedResponses(file, threshold, rows, exact) ==
    {recognize_user(file, [threshold |-> threshold], Session(FALSE, <<>>, first)).resp :
        first \in NearestRows(rows, QueryOf(file), exact)}

\* the largest cosine similarity of the query over the store
BestCosine == MaxOf({CosineSimilarity(f.embedding, call.query) : f \in JoinedFaces})

\* C15: on the same store and query, the linear scan and the pgvector
\* implementation (answering with an exact nearest neighbour) return the same
\* match flag, user_id and similarity.
C15_StrategiesAgree ==
    (Compared /\ IsResult /\ call.exact) =>
        \A r \in (IF call.impl = "scan"
                  THEN IndexedResponses(call.file, call.threshold, JoinedFaces, TRUE)
                  ELSE ScanResponses(call.file, call.threshold, JoinedFaces)) :
            r = resp

C17_RecognizeLeavesStore ==
    [][/\ call'.op = "recognize" => UNCHANGED <<auth_users, users, faces, pending>>
       /\ \A f \in faces : \A g \in faces' : g.face_id = f.face_id => g = f]_vars

\* a recognition answered on a store that does not hold the query embedding
C17_Witness ==
    /\ Compared /\ IsResult
    /\ \A f \in faces : f.embedding # call.query

C19_ThresholdMonotone ==
    (Compared /\ IsResult /\ resp.match) =>
        \A t \in Thresholds :
            t <= call.threshold =>
                IF call.impl = "scan"
                THEN \A r \in ScanResponses(call.file, t, JoinedFaces) :
                       r.kind = "RecognizeResponse" /\ r.match
                ELSE LET r == recognize_user(call.file, [threshold |-> t],
                                             Session(FALSE, <<>>, call.best_match)).resp
                     IN  r.kind = "RecognizeResponse" /\ r.match

C19_Witness ==
    /\ Indexed /\ Compared /\ IsResult
    /\ resp.match
    /\ call.threshold > DefaultThreshold

\* detection scores other than the ones the stored rows carry
OtherScores == {10}

\* the rows with the detection_score of the rows in S replaced by d
Rescored(rows, S, d) ==
    (rows \ S) \cup {[f EXCEPT !.detection_score = d] : f \in S}

\* C20: the detection confidence does not affect matching.  Two stores that
\* differ only in the detection_score of their embeddings give the same
\* results for the same query.
C20_DetectionScoreIgnored ==
    (Compared /\ IsResult) =>
        \A S \in SUBSET JoinedFaces : \A d \in OtherScores :
            LET rows == Rescored(JoinedFaces, S, d)
                there == IF call.impl = "scan"
                         THEN ScanResponses(call.file, call.threshold, rows)
                         ELSE IndexedResponses(call.file, call.threshold, rows, call.exact)
                here == IF call.impl = "scan"
                        THEN ScanResponses(call.file, call.threshold, JoinedFaces)
                        ELSE IndexedResponses(call.file, call.threshold, JoinedFaces,
                                              call.exact)
            IN  resp \in there /\ there = here

C20_Witness ==
    /\ Indexed /\ Compared /\ IsResult
    /\ resp.match
    /\ Cardinality(JoinedFaces) >= 2

\* C21: an upload that validate_image refuses (a header shorter than 4
\* bytes, or no known signature) makes recognize_user answer HTTP 422 with
\* the validation message; nothing is decoded or embedded and the store is
\* not queried.
C21_InvalidUploadIs422 ==
    (IsRecognize /\ (call.file.header_len < 4 \/ call.file.signature # "known")) =>
        /\ resp = HTTPException(422, IF call.file.header_len < 4
                                     THEN "Image file is too small"
                                     ELSE "Unsupported image format")
        /\ call.query = <<>>
        /\ call.queries = <<>>

C21_Witness ==
    /\ IsRecognize
    /\ call.file.signature # "known"
    /\ resp.kind = "HTTPException"
    /\ JoinedFaces # {}

\* C25: similarity is symmetric: similarity(a, b) = similarity(b, a) for
\* embeddings of equal dimension.
C25_SimilaritySymmetric ==
    (call.op = "similarity" /\ Len(call.e1) = Len(call.e2)) =>
        /\ resp.kind = "float"
        /\ resp = Scored("float", similarity(call.e2, call.e1))

C25_Witness ==
    /\ call.op = "similarity"
    /\ Len(call.e1) = Len(call.e2)
    /\ call.e1 # call.e2
    /\ resp.kind = "float"
    /\ resp.value > 0

\* C27: in every result of recognize_user, user_id is set if and only if
\* match is true.
C27_UserIdIffMatch ==
    (IsRecognize /\ IsResult) => ((resp.user_id # None) <=> resp.match)

\* a miss on a store that holds a candidate
C27_Witness ==
    /\ Indexed /\ Compared /\ IsResult
    /\ ~resp.match
    /\ resp.user_id = None

\* C30: register_user answers an upload that validate_image refuses with
\* HTTP 422, as recognize_user does, and stores nothing.
C30_RegisterInvalidUploadIs422 ==
    (call.op = "register"
     /\ (call.file.header_len < 4 \/ call.file.signature # "known")) =>
        /\ resp.kind = "HTTPException"
        /\ resp.status_code = 422
        /\ pending = NoPending

C28_DeletedNeverReturned ==
    /\ (IsRecognize /\ IsResult) => resp.user_id \notin deleted
    /\ \A u \in users \cup pending.users : u.user_id \notin deleted
    /\ \A f \in faces \cup pending.faces : f.user_id \notin deleted
    /\ (call.op = "register" /\ resp.kind = "HTTPException" /\ resp.status_code = 409) =>
           \E u \in users : u.auth_user_id = call.auth_user_id

\* a registration accepted after a delete, in a store holding no Identity
C28_Witness ==
    /\ deleted # {}
    /\ users = {}
    /\ call.op = "register"
    /\ resp.kind = "RegisterResponse"
    /\ resp.user_id \notin deleted

\* C29: a call of delete_me with delete_auth_user=false for a user without a
\* biometric profile, or of delete_user for an unknown user_id, answers HTTP
\* 404 and changes no auth account, Identity or FaceEmbedding.
C29_NothingToDeleteIs404 ==
    [][(/\ call.op = "none"
        /\ call'.op \in {"delete_me", "delete_user"}
        /\ ~call'.found)
       => (/\ resp'.kind = "HTTPException"
           /\ resp'.status_code = 404
           /\ UNCHANGED <<auth_users, users, faces, pending>>)]_vars

C29_Witness ==
    /\ call.op = "delete_user"
    /\ ~call.found
    /\ resp = HTTPException(404, "User not found")
    /\ users # {}

\* C22: an upload of more than MAX_FILE_SIZE bytes is answered HTTP 413
\* 'File too large' and the service is not called; an upload of at most
\* MAX_FILE_SIZE bytes is passed to the service with its position at 0.
C22_SizeLimit ==
    (call.op \in {"POST /recognize", "POST /register"}) =>
        IF call.upload.size > MAX_FILE_SIZE
        THEN resp = HTTPException(413, "File too large") /\ ~call.served
        ELSE /\ call.served
             /\ call.passed = [call.upload EXCEPT !.position = 0]
             /\ resp.kind = "HTTPException" => resp.status_code # 413

\* an upload of exactly MAX_FILE_SIZE is recognized
C22_Witness ==
    /\ call.op = "POST /recognize"
    /\ call.upload.size = MAX_FILE_SIZE
    /\ call.served
    /\ resp.kind = "RecognizeResponse"

\* C23: a DELETE /me request of a user with a biometric profile and a
\* DELETE /{user_id} request of an admin for an existing user end with the
\* deletion service called once and the data deleted.
C23_DeleteRoutesReachService ==
    (call.op \in {"DELETE /me", "DELETE /{user_id}"} /\ call.found) =>
        /\ resp = NoContent
        /\ call.service_calls = 1

\* C24: the threshold of the shared matcher is 0.7 from its creation on, no
\* request changes it, and every recognize request is decided against it.
C24_ThresholdConstant ==
    /\ [](/\ matcher_instance \in {NoInstance, InsightFaceMatcher(DefaultThreshold)}
           /\ (call.op = "POST /recognize" /\ call.served) =>
                  /\ call.threshold = DefaultThreshold
                  /\ matcher_instance = InsightFaceMatcher(DefaultThreshold)
                  /\ (IsResult /\ call.best_match # {}) =>
                        (resp.match <=>
                           \E f \in call.best_match :
                             One - cosine_distance(f.embedding,
                                     file_at(call.passed).detected[1].embedding)
                               >= DefaultThreshold))
    /\ [][matcher_instance # NoInstance => matcher_instance' = matcher_instance]_vars

\* a recognize request matched by the shared matcher
C24_Witness ==
    /\ call.op = "POST /recognize"
    /\ IsResult
    /\ resp.match
    /\ matcher_instance = InsightFaceMatcher(DefaultThreshold)

====
